---- MODULE Spec2Model ----
(***************************************************************************)
(* Rule aggregation and optimization scripts of Shinlor/ForPersonalUse:    *)
(*   Script/domain_merge_optimizer.py   (merge run, suffix covering)       *)
(*   Script/list_to_json_converter.py   (JSON batch conversion and merge)  *)
(*   Script/list_to_yaml_converter.py   (YAML conversion and merge)        *)
(*   Script/list_to_json/list_to_json.py (single-file JSON conversion)     *)
(*                                                                         *)
(* A Python str is modelled as a sequence of one-character strings, so     *)
(* that strip, split, startswith, endswith and upper are computed          *)
(* character by character.                                                 *)
(***************************************************************************)
EXTENDS Integers, Sequences, FiniteSets, TLC

(***************************************************************************)
(* Bounds of the model                                                     *)
(***************************************************************************)
MaxStrLen == 3
MaxSetSize == 3
MaxLines == 2
MaxSources == 2

(***************************************************************************)
(* str primitives                                                          *)
(***************************************************************************)
Range(q) == {q[i] : i \in 1..Len(q)}

\* all sequences over alphabet A of length at most n
StringsUpTo(A, n) == UNION {[1..k -> A] : k \in 0..n}

\* all enumerations of the finite set S without repetition: the orders in
\* which a Python loop can visit a set
RECURSIVE Iter(_)
Iter(S) ==
    IF S = {} THEN {<<>>}
    ELSE UNION {{<<x>> \o q : q \in Iter(S \ {x})} : x \in S}

\* str.startswith(prefix)
StartsWith(s, prefix) ==
    /\ Len(prefix) <= Len(s)
    /\ SubSeq(s, 1, Len(prefix)) = prefix

\* str.endswith(suffix)
EndsWith(s, suffix) ==
    /\ Len(suffix) <= Len(s)
    /\ SubSeq(s, Len(s) - Len(suffix) + 1, Len(s)) = suffix

\* the characters str.strip() removes
Whitespace == {" ", "\n"}

RECURSIVE LStrip(_)
LStrip(s) ==
    IF s # <<>> /\ Head(s) \in Whitespace THEN LStrip(Tail(s)) ELSE s

RECURSIVE RStrip(_)
RStrip(s) ==
    IF s # <<>> /\ s[Len(s)] \in Whitespace
    THEN RStrip(SubSeq(s, 1, Len(s) - 1))
    ELSE s

\* str.strip()
Strip(s) == RStrip(LStrip(s))

\* position of the first occurrence of character c in s, 0 when absent
Find(s, c) ==
    IF \E i \in 1..Len(s) : s[i] = c
    THEN CHOOSE i \in 1..Len(s) : s[i] = c /\ \A j \in 1..(i - 1) : s[j] # c
    ELSE 0

\* str.split(c): all the fields delimited by the character c
RECURSIVE Split(_, _)
Split(s, c) ==
    IF Find(s, c) = 0 THEN <<s>>
    ELSE <<SubSeq(s, 1, Find(s, c) - 1)>>
         \o Split(SubSeq(s, Find(s, c) + 1, Len(s)), c)

\* str.split(c, 1): split at the first occurrence of c only
Split1(s, c) ==
    IF Find(s, c) = 0 THEN <<s>>
    ELSE <<SubSeq(s, 1, Find(s, c) - 1), SubSeq(s, Find(s, c) + 1, Len(s))>>

\* sub in s
Contains(s, sub) ==
    \E i \in 1..(Len(s) - Len(sub) + 1) : SubSeq(s, i, i + Len(sub) - 1) = sub

LowerCase == <<"a", "b", "c", "d", "e", "f", "g", "h", "i", "j", "k", "l", "m",
               "n", "o", "p", "q", "r", "s", "t", "u", "v", "w", "x", "y", "z">>
UpperCase == <<"A", "B", "C", "D", "E", "F", "G", "H", "I", "J", "K", "L", "M",
               "N", "O", "P", "Q", "R", "S", "T", "U", "V", "W", "X", "Y", "Z">>

UpperChar(c) ==
    IF \E i \in 1..Len(LowerCase) : LowerCase[i] = c
    THEN UpperCase[CHOOSE i \in 1..Len(LowerCase) : LowerCase[i] = c]
    ELSE c

\* str.upper()
Upper(s) == [i \in 1..Len(s) |-> UpperChar(s[i])]

\* sep.join(parts)
RECURSIVE Join(_, _)
Join(parts, sep) ==
    IF parts = <<>> THEN <<>>
    ELSE IF Len(parts) = 1 THEN parts[1]
    ELSE parts[1] \o sep \o Join(Tail(parts), sep)

\* the lines a text file yields when iterated (for line in f, readlines):
\* each line keeps its terminating newline
RECURSIVE FileLines(_)
FileLines(text) ==
    IF text = <<>> THEN <<>>
    ELSE IF Find(text, "\n") = 0 THEN <<text>>
    ELSE <<SubSeq(text, 1, Find(text, "\n"))>>
         \o FileLines(SubSeq(text, Find(text, "\n") + 1, Len(text)))

\* the elements of the list q that satisfy membership in the set S, in order
RECURSIVE Filter(_, _)
Filter(q, S) ==
    IF q = <<>> THEN <<>>
    ELSE IF Head(q) \in S THEN <<Head(q)>> \o Filter(Tail(q), S)
    ELSE Filter(Tail(q), S)

\* the text of a file with the given lines, each terminated by a newline
RECURSIVE Text(_)
Text(lines) ==
    IF lines = <<>> THEN <<>>
    ELSE Head(lines) \o <<"\n">> \o Text(Tail(lines))

LowerChar(c) ==
    IF \E i \in 1..Len(UpperCase) : UpperCase[i] = c
    THEN LowerCase[CHOOSE i \in 1..Len(UpperCase) : UpperCase[i] = c]
    ELSE c

\* str.lower()
Lower(s) == [i \in 1..Len(s) |-> LowerChar(s[i])]

\* the characters that occur in the rule lists, in ascending code point order
CodePointOrder ==
    <<"\n", " ", "\"", "#", ",", "-", ".", "/",
      "0", "1", "2", "3", "4", "5", "6", "7", "8", "9", ":">>
    \o UpperCase \o <<"\\", "_">> \o LowerCase

\* the rank of the character c in that order
Ord(c) == CHOOSE i \in 1..Len(CodePointOrder) : CodePointOrder[i] = c

\* a < b for two str: lexicographic by code point
RECURSIVE StrLess(_, _)
StrLess(a, b) ==
    IF b = <<>> THEN FALSE
    ELSE IF a = <<>> THEN TRUE
    ELSE IF Head(a) = Head(b) THEN StrLess(Tail(a), Tail(b))
    ELSE Ord(Head(a)) < Ord(Head(b))

(***************************************************************************)
(* domain_merge_optimizer.py: the covering predicate and the optimizer     *)
(***************************************************************************)
\* a variant that forgets the separating dot
is_subdomain_of_nodot(domain, suffix) ==
    IF domain = suffix THEN FALSE
    ELSE IF EndsWith(domain, suffix) THEN TRUE
    ELSE FALSE

\* is_subdomain_of(domain, suffix)
is_subdomain_of(domain, suffix) ==
    IF domain = suffix THEN FALSE
    ELSE IF EndsWith(domain, <<".">> \o suffix) THEN TRUE
    ELSE FALSE

\* a variant that leaves the inner loop after the first suffix
covered_from_first_only(domain, suffixes, i) ==
    IF i > Len(suffixes) THEN FALSE
    ELSE is_subdomain_of(domain, suffixes[i])

\* the inner loop of optimize_domains over the suffixes, in visiting order
\* suffixes, from position i: TRUE when some suffix covers the domain (break)
RECURSIVE covered_from(_, _, _)
covered_from(domain, suffixes, i) ==
    IF i > Len(suffixes) THEN FALSE
    ELSE IF is_subdomain_of(domain, suffixes[i]) THEN TRUE
    ELSE covered_from(domain, suffixes, i + 1)

\* the outer loop of optimize_domains: domains and suffixes are the two sets
\* in the order the loops visit them, optimized the set built so far
RECURSIVE optimize_loop(_, _, _, _)
optimize_loop(domains, suffixes, i, optimized) ==
    IF i > Len(domains) THEN optimized
    ELSE IF covered_from(domains[i], suffixes, 1)
         THEN optimize_loop(domains, suffixes, i + 1, optimized)
         ELSE optimize_loop(domains, suffixes, i + 1, optimized \cup {domains[i]})

\* a variant that keeps the covering suffix in place of the covered domain
RECURSIVE first_cover(_, _, _)
first_cover(domain, suffixes, i) ==
    IF is_subdomain_of(domain, suffixes[i]) THEN suffixes[i]
    ELSE first_cover(domain, suffixes, i + 1)

RECURSIVE collapse_loop(_, _, _, _)
collapse_loop(domains, suffixes, i, optimized) ==
    IF i > Len(domains) THEN optimized
    ELSE IF covered_from(domains[i], suffixes, 1)
         THEN collapse_loop(domains, suffixes, i + 1,
                            optimized \cup {first_cover(domains[i], suffixes, 1)})
         ELSE collapse_loop(domains, suffixes, i + 1, optimized \cup {domains[i]})

optimize_domains_collapse(domains, suffixes) ==
    collapse_loop(domains, suffixes, 1, {})

\* optimize_domains(all_domains, domain_suffixes), the two sets given in
\* the order the loops visit them
optimize_domains(domains, suffixes) ==
    optimize_loop(domains, suffixes, 1, {})

(***************************************************************************)
(* Rule type tokens and line prefixes, as the scripts spell them           *)
(***************************************************************************)
T_DOMAIN == <<"D", "O", "M", "A", "I", "N">>
T_DOMAIN_SUFFIX == <<"D", "O", "M", "A", "I", "N", "-", "S", "U", "F", "F", "I", "X">>
T_DOMAIN_KEYWORD == <<"D", "O", "M", "A", "I", "N", "-", "K", "E", "Y", "W", "O", "R", "D">>
T_IP_CIDR == <<"I", "P", "-", "C", "I", "D", "R">>
T_IP_CIDR6 == <<"I", "P", "-", "C", "I", "D", "R", "6">>
T_DOMAIN_SET == <<"D", "O", "M", "A", "I", "N", "-", "S", "E", "T">>
T_GEOIP == <<"G", "E", "O", "I", "P">>
T_IP_ASN == <<"I", "P", "-", "A", "S", "N">>
T_USER_AGENT == <<"U", "S", "E", "R", "-", "A", "G", "E", "N", "T">>
T_URL_REGEX == <<"U", "R", "L", "-", "R", "E", "G", "E", "X">>
T_PROCESS_NAME == <<"P", "R", "O", "C", "E", "S", "S", "-", "N", "A", "M", "E">>

P_DOMAIN == T_DOMAIN \o <<",">>
P_DOMAIN_KEYWORD == T_DOMAIN_KEYWORD \o <<",">>
P_DOMAIN_SUFFIX == T_DOMAIN_SUFFIX \o <<",">>
P_IP_CIDR == T_IP_CIDR \o <<",">>
P_IP_CIDR6 == T_IP_CIDR6 \o <<",">>
P_COMMENT == <<"#">>

(***************************************************************************)
(* domain_merge_optimizer.py: parse_list_file                              *)
(***************************************************************************)
\* a variant that takes the value of a line of any type as a domain
opt_parse_line_any_type(acc, raw) ==
    LET line == Strip(raw) IN
    IF line = <<>> \/ StartsWith(line, P_COMMENT) \/ Find(line, ",") = 0 THEN acc
    ELSE [acc EXCEPT !.domains = @ \cup {Strip(Split1(line, ",")[2])}]

\* one iteration of the loop over the lines of the file
opt_parse_line(acc, raw) ==
    LET line == Strip(raw) IN
    IF line = <<>> \/ StartsWith(line, P_COMMENT) THEN acc
    ELSE IF StartsWith(line, P_DOMAIN) THEN
        LET value == Strip(Split1(line, ",")[2]) IN
        IF value # <<>> THEN [acc EXCEPT !.domains = @ \cup {value}] ELSE acc
    ELSE IF StartsWith(line, P_DOMAIN_SUFFIX) THEN
        LET value == Strip(Split1(line, ",")[2]) IN
        IF value # <<>> THEN [acc EXCEPT !.domain_suffixes = @ \cup {value}] ELSE acc
    ELSE acc

\* a variant in which a line without a comma ends the loop, as an error
\* caught by the handler around the loop would
RECURSIVE opt_parse_lines_abort(_, _)
opt_parse_lines_abort(acc, lines) ==
    IF lines = <<>> THEN acc
    ELSE IF Strip(Head(lines)) # <<>> /\ Find(Head(lines), ",") = 0 THEN acc
    ELSE opt_parse_lines_abort(opt_parse_line(acc, Head(lines)), Tail(lines))

RECURSIVE opt_parse_lines(_, _)
opt_parse_lines(acc, lines) ==
    IF lines = <<>> THEN acc
    ELSE opt_parse_lines(opt_parse_line(acc, Head(lines)), Tail(lines))

\* parse_list_file(filepath), text being the content of the file
opt_parse_list_file(text) ==
    opt_parse_lines([domains |-> {}, domain_suffixes |-> {}], FileLines(text))

(***************************************************************************)
(* list_to_json_converter.py: parse_list_file, convert_list_to_json        *)
(***************************************************************************)
json_parse_line(rules_data, raw) ==
    LET line == Strip(raw) IN
    IF line = <<>> \/ StartsWith(line, P_COMMENT) THEN rules_data
    ELSE IF StartsWith(line, P_DOMAIN) THEN
        [rules_data EXCEPT !.domain = Append(@, Split1(line, ",")[2])]
    ELSE IF StartsWith(line, P_DOMAIN_KEYWORD) THEN
        [rules_data EXCEPT !.domain_keyword = Append(@, Split1(line, ",")[2])]
    ELSE IF StartsWith(line, P_DOMAIN_SUFFIX) THEN
        [rules_data EXCEPT !.domain_suffix = Append(@, Split1(line, ",")[2])]
    ELSE IF StartsWith(line, P_IP_CIDR) \/ StartsWith(line, P_IP_CIDR6) THEN
        [rules_data EXCEPT !.ip_cidr = Append(@, Split(line, ",")[2])]
    ELSE rules_data

RECURSIVE json_parse_lines(_, _)
json_parse_lines(rules_data, lines) ==
    IF lines = <<>> THEN rules_data
    ELSE json_parse_lines(json_parse_line(rules_data, Head(lines)), Tail(lines))

EmptyRulesData ==
    [domain |-> <<>>, domain_keyword |-> <<>>, domain_suffix |-> <<>>, ip_cidr |-> <<>>]

\* the "rules" array: one object {key: vals} per non-empty partition
final_rules(rules_data) ==
    (IF rules_data.domain # <<>>
     THEN <<[key |-> "domain", vals |-> rules_data.domain]>> ELSE <<>>)
    \o (IF rules_data.domain_keyword # <<>>
        THEN <<[key |-> "domain_keyword", vals |-> rules_data.domain_keyword]>> ELSE <<>>)
    \o (IF rules_data.domain_suffix # <<>>
        THEN <<[key |-> "domain_suffix", vals |-> rules_data.domain_suffix]>> ELSE <<>>)
    \o (IF rules_data.ip_cidr # <<>>
        THEN <<[key |-> "ip_cidr", vals |-> rules_data.ip_cidr]>> ELSE <<>>)

\* parse_list_file(list_file_path), text being the content of the file
json_parse_list_file(text) ==
    [rules |-> final_rules(json_parse_lines(EmptyRulesData, FileLines(text))),
     version |-> 2]

\* the document convert_list_to_json writes to json_file_path
convert_list_to_json(text, version) == json_parse_list_file(text)

(***************************************************************************)
(* list_to_json/list_to_json.py: list_to_json                              *)
(***************************************************************************)
l2j_line(acc, raw) ==
    LET line == Strip(raw) IN
    IF line = <<>> THEN acc
    ELSE LET parts == Split(line, ",") IN
         IF Len(parts) < 2 THEN acc
         ELSE LET rule_type == Upper(parts[1])
                  value == parts[2]
              IN IF rule_type = T_DOMAIN
                 THEN [acc EXCEPT !.domain = Append(@, value)]
                 ELSE IF rule_type = T_DOMAIN_KEYWORD
                 THEN [acc EXCEPT !.domain_keyword = Append(@, value)]
                 ELSE IF rule_type = T_DOMAIN_SUFFIX
                 THEN [acc EXCEPT !.domain_suffix = Append(@, value)]
                 ELSE [acc EXCEPT !.ignored = @ + 1]

RECURSIVE l2j_lines(_, _)
l2j_lines(acc, lines) ==
    IF lines = <<>> THEN acc
    ELSE l2j_lines(l2j_line(acc, Head(lines)), Tail(lines))

\* the document list_to_json writes, with the count of ignored lines
list_to_json(text, version) ==
    LET acc == l2j_lines([domain |-> <<>>, domain_keyword |-> <<>>,
                          domain_suffix |-> <<>>, ignored |-> 0], FileLines(text))
    IN [rules |-> <<[key |-> "domain", vals |-> acc.domain],
                    [key |-> "domain_keyword", vals |-> acc.domain_keyword],
                    [key |-> "domain_suffix", vals |-> acc.domain_suffix]>>,
        version |-> version,
        ignored |-> acc.ignored]

(***************************************************************************)
(* list_to_yaml_converter.py: parse_list_file, convert_to_yaml             *)
(***************************************************************************)
SUPPORTED_RULE_TYPES ==
    {T_DOMAIN_SUFFIX, T_DOMAIN_KEYWORD, T_IP_CIDR, T_IP_CIDR6, T_DOMAIN,
     T_DOMAIN_SET, T_GEOIP, T_IP_ASN}

UNSUPPORTED_RULE_TYPES == {T_USER_AGENT, T_URL_REGEX, T_PROCESS_NAME}

K_NAME == <<"#", " ", "N", "A", "M", "E", ":">>
K_AUTHOR == <<"#", " ", "A", "U", "T", "H", "O", "R", ":">>
K_REPO == <<"#", " ", "R", "E", "P", "O", ":">>
K_UPDATED == <<"#", " ", "U", "P", "D", "A", "T", "E", "D", ":">>
K_TOTAL == <<"#", " ", "T", "O", "T", "A", "L", ":">>
Y_payload == <<"p", "a", "y", "l", "o", "a", "d", ":">>
Y_item == <<" ", " ", "-", " ">>
Y_dash == <<"-", " ">>

Digits == <<"0", "1", "2", "3", "4", "5", "6", "7", "8", "9">>

\* str(n) for a natural number n
RECURSIVE IntToStr(_)
IntToStr(n) ==
    IF n < 10 THEN <<Digits[n + 1]>>
    ELSE IntToStr(n \div 10) \o <<Digits[(n % 10) + 1]>>

\* the metadata a comment line sets: for each of NAME, AUTHOR, REPO, UPDATED
\* whose marker occurs in the line, the text after the first colon, stripped.
\* (The integer counts read from comments are stored and never read again.)
yaml_metadata_line(metadata, line) ==
    LET v == Strip(Split1(line, ":")[2]) IN
    [NAME    |-> IF Contains(line, K_NAME) THEN v ELSE metadata.NAME,
     AUTHOR  |-> IF Contains(line, K_AUTHOR) THEN v ELSE metadata.AUTHOR,
     REPO    |-> IF Contains(line, K_REPO) THEN v ELSE metadata.REPO,
     UPDATED |-> IF Contains(line, K_UPDATED) THEN v ELSE metadata.UPDATED]

\* stats[rule_type] = stats.get(rule_type, 0) + 1
Count(stats, rule_type) ==
    IF rule_type \in DOMAIN stats
    THEN [stats EXCEPT ![rule_type] = @ + 1]
    ELSE stats @@ (rule_type :> 1)

\* one iteration of the loop over enumerate(lines, 1)
yaml_parse_line(acc, line_num, raw) ==
    LET line == Strip(raw) IN
    IF StartsWith(line, P_COMMENT)
    THEN [acc EXCEPT !.metadata = yaml_metadata_line(@, line)]
    ELSE IF line = <<>> THEN acc
    ELSE LET parts == Split(line, ",") IN
         IF Len(parts) < 2 THEN acc
         ELSE LET rule_type == Strip(parts[1])
                  rule_value == Strip(parts[2])
              IN IF rule_type \in UNSUPPORTED_RULE_TYPES
                 THEN [acc EXCEPT !.skipped_rules =
                                     Append(@, <<line_num, rule_type, rule_value>>)]
                 ELSE IF rule_type \notin SUPPORTED_RULE_TYPES
                 THEN [acc EXCEPT !.unknown = Append(@, line_num)]
                 ELSE [acc EXCEPT !.rules = Append(@, rule_type \o <<",">> \o rule_value),
                                  !.stats = Count(@, rule_type)]

RECURSIVE yaml_parse_lines(_, _, _)
yaml_parse_lines(acc, lines, line_num) ==
    IF line_num > Len(lines) THEN acc
    ELSE yaml_parse_lines(yaml_parse_line(acc, line_num, lines[line_num]),
                          lines, line_num + 1)

\* parse_list_file(content, filename); unknown holds the line numbers of the
\* unknown-type warnings it prints
yaml_parse_list_file(content) ==
    yaml_parse_lines(
        [metadata |-> [NAME |-> <<>>, AUTHOR |-> <<>>, REPO |-> <<>>, UPDATED |-> <<>>],
         rules |-> <<>>, stats |-> <<>>, skipped_rules |-> <<>>, unknown |-> <<>>],
        Split(Strip(content), "\n"), 1)

\* the "# KEY: count" header lines, for the keys present in stats, in the
\* order of the list in convert_to_yaml
RECURSIVE stats_lines(_, _)
stats_lines(stats, keys) ==
    IF keys = <<>> THEN <<>>
    ELSE (IF Head(keys) \in DOMAIN stats
          THEN <<<<"#", " ">> \o Head(keys) \o <<":", " ">> \o IntToStr(stats[Head(keys)])>>
          ELSE <<>>)
         \o stats_lines(stats, Tail(keys))

\* convert_to_yaml(data, original_filename): the YAML text
convert_to_yaml(data) ==
    Join(<<K_NAME \o <<" ">> \o data.metadata.NAME,
           K_AUTHOR \o <<" ">> \o data.metadata.AUTHOR,
           K_REPO \o <<" ">> \o data.metadata.REPO,
           K_UPDATED \o <<" ">> \o data.metadata.UPDATED>>
         \o stats_lines(data.stats,
                        <<T_DOMAIN_KEYWORD, T_DOMAIN_SUFFIX, T_IP_CIDR, T_IP_CIDR6>>)
         \o <<K_TOTAL \o <<" ">> \o IntToStr(Len(data.rules))>>
         \o <<Y_payload>>
         \o [i \in 1..Len(data.rules) |-> Y_item \o data.rules[i]],
         <<"\n">>)

(***************************************************************************)
(* list_to_yaml_converter.py: merge_yaml_files                             *)
(***************************************************************************)
\* a variant that puts a new rule in front of the rules collected so far
merge_yaml_line_prepend(acc, line) ==
    LET stripped == Strip(line) IN
    IF StartsWith(stripped, Y_dash) /\ Strip(SubSeq(stripped, 3, Len(stripped))) # <<>>
       /\ Strip(SubSeq(stripped, 3, Len(stripped))) \notin Range(acc.all_rules)
    THEN [acc EXCEPT !.all_rules = <<Strip(SubSeq(stripped, 3, Len(stripped)))>> \o @,
                     !.total_rules = @ + 1]
    ELSE acc

\* one iteration of the loop over the lines of one YAML content
merge_yaml_line(acc, line) ==
    LET stripped == Strip(line) IN
    IF StartsWith(stripped, P_COMMENT) \/ stripped = Y_payload THEN acc
    ELSE IF StartsWith(stripped, Y_dash) THEN
        LET rule == Strip(SubSeq(stripped, 3, Len(stripped))) IN
        IF rule # <<>> /\ rule \notin Range(acc.all_rules)
        THEN [all_rules |-> Append(acc.all_rules, rule),
              rule_stats |-> Count(acc.rule_stats, Split(rule, ",")[1]),
              total_rules |-> acc.total_rules + 1]
        ELSE acc
    ELSE acc

RECURSIVE merge_yaml_lines(_, _)
merge_yaml_lines(acc, lines) ==
    IF lines = <<>> THEN acc
    ELSE merge_yaml_lines(merge_yaml_line(acc, Head(lines)), Tail(lines))

RECURSIVE merge_yaml_contents(_, _)
merge_yaml_contents(acc, contents) ==
    IF contents = <<>> THEN acc
    ELSE merge_yaml_contents(
             merge_yaml_lines(acc, Split(Head(contents), "\n")),
             Tail(contents))

\* merge_yaml_files(yaml_contents, output_dir): the rules collected, their
\* statistics and the payload lines of the merged file, contents being
\* the YAML texts in the order of the list
merge_yaml_files(contents) ==
    LET acc == merge_yaml_contents(
                   [all_rules |-> <<>>, rule_stats |-> <<>>, total_rules |-> 0],
                   contents)
    IN [all_rules |-> acc.all_rules,
        rule_stats |-> acc.rule_stats,
        total_rules |-> acc.total_rules,
        payload |-> [i \in 1..Len(acc.all_rules) |-> Y_item \o acc.all_rules[i]]]

(***************************************************************************)
(* json.dump and json.load as the JSON converter uses them                 *)
(***************************************************************************)
J_rules == <<"r", "u", "l", "e", "s">>
J_version == <<"v", "e", "r", "s", "i", "o", "n">>

\* the keys of the rule objects, spelled out
KeyChars ==
    [domain         |-> <<"d", "o", "m", "a", "i", "n">>,
     domain_keyword |-> <<"d", "o", "m", "a", "i", "n", "_", "k", "e", "y", "w", "o", "r", "d">>,
     domain_suffix  |-> <<"d", "o", "m", "a", "i", "n", "_", "s", "u", "f", "f", "i", "x">>,
     ip_cidr        |-> <<"i", "p", "_", "c", "i", "d", "r">>]

\* a str as a JSON string (ensure_ascii=False): quoted, with the quote, the
\* backslash and the newline escaped
RECURSIVE json_escape(_)
json_escape(s) ==
    IF s = <<>> THEN <<>>
    ELSE (IF Head(s) = "\"" THEN <<"\\", "\"">>
          ELSE IF Head(s) = "\\" THEN <<"\\", "\\">>
          ELSE IF Head(s) = "\n" THEN <<"\\", "n">>
          ELSE <<Head(s)>>)
         \o json_escape(Tail(s))

json_string(s) == <<"\"">> \o json_escape(s) \o <<"\"">>

\* n spaces
Indent(n) == [i \in 1..n |-> " "]

\* a list of str as a JSON array whose opening bracket is indented by n
json_array(vals, n) ==
    IF vals = <<>> THEN <<"[", "]">>
    ELSE <<"[", "\n">>
         \o Join([i \in 1..Len(vals) |-> Indent(n + 2) \o json_string(vals[i])],
                 <<",", "\n">>)
         \o <<"\n">> \o Indent(n) \o <<"]">>

\* one object {key: vals} of the "rules" array
json_rule(rule) ==
    Indent(4) \o <<"{", "\n">>
    \o Indent(6) \o json_string(KeyChars[rule.key]) \o <<":", " ">>
    \o json_array(rule.vals, 6) \o <<"\n">>
    \o Indent(4) \o <<"}">>

\* json.dump(doc, f, indent=2, ensure_ascii=False): the text of the file
json_dump(doc) ==
    <<"{", "\n">>
    \o Indent(2) \o json_string(J_rules) \o <<":", " ">>
    \o (IF doc.rules = <<>> THEN <<"[", "]">>
        ELSE <<"[", "\n">>
             \o Join([i \in 1..Len(doc.rules) |-> json_rule(doc.rules[i])], <<",", "\n">>)
             \o <<"\n">> \o Indent(2) \o <<"]">>)
    \o <<",", "\n">>
    \o Indent(2) \o json_string(J_version) \o <<":", " ">> \o IntToStr(doc.version)
    \o <<"\n", "}">>

\* the characters of a JSON string that starts behind the quote at i - 1:
\* its value with the escapes undone, and the position behind its closing
\* quote
RECURSIVE json_scan_string(_, _, _)
json_scan_string(text, i, acc) ==
    IF text[i] = "\"" THEN [v |-> acc, next |-> i + 1]
    ELSE IF text[i] = "\\"
    THEN json_scan_string(text, i + 2,
             Append(acc, IF text[i + 1] = "n" THEN "\n" ELSE text[i + 1]))
    ELSE json_scan_string(text, i + 1, Append(acc, text[i]))

RECURSIVE json_scan_number(_, _, _)
json_scan_number(text, i, acc) ==
    IF i <= Len(text) /\ text[i] \in Range(Digits)
    THEN json_scan_number(text, i + 1, Append(acc, text[i]))
    ELSE [v |-> acc, next |-> i]

\* the tokens of a JSON text from position i on: punctuation, strings and
\* numbers, the whitespace between them dropped
RECURSIVE json_tokens(_, _)
json_tokens(text, i) ==
    IF i > Len(text) THEN <<>>
    ELSE IF text[i] \in Whitespace
    THEN json_tokens(text,
             CHOOSE j \in (i + 1)..(Len(text) + 1) :
                 /\ \A k \in i..(j - 1) : text[k] \in Whitespace
                 /\ j <= Len(text) => text[j] \notin Whitespace)
    ELSE IF text[i] = "\""
    THEN LET s == json_scan_string(text, i + 1, <<>>)
         IN <<[t |-> "string", v |-> s.v]>> \o json_tokens(text, s.next)
    ELSE IF text[i] \in Range(Digits)
    THEN LET n == json_scan_number(text, i, <<>>)
         IN <<[t |-> "number", v |-> n.v]>> \o json_tokens(text, n.next)
    ELSE <<[t |-> "punct", v |-> <<text[i]>>]>> \o json_tokens(text, i + 1)

\* int(digits)
RECURSIVE StrToInt(_)
StrToInt(digits) ==
    IF digits = <<>> THEN 0
    ELSE 10 * StrToInt(SubSeq(digits, 1, Len(digits) - 1))
         + (CHOOSE d \in 0..9 : Digits[d + 1] = digits[Len(digits)])

IsPunct(tok, c) == tok.t = "punct" /\ tok.v = <<c>>

\* the strings of a JSON array whose tokens start behind its bracket at i:
\* the values and the position behind the closing bracket
RECURSIVE json_read_strings(_, _, _)
json_read_strings(toks, i, acc) ==
    IF IsPunct(toks[i], "]") THEN [vals |-> acc, next |-> i + 1]
    ELSE IF IsPunct(toks[i], ",") THEN json_read_strings(toks, i + 1, acc)
    ELSE json_read_strings(toks, i + 1, Append(acc, toks[i].v))

\* a variant that takes every rule object for a domain object
json_key_domain(chars) == "domain"

\* the key of a rule object as the merge tests it ("domain" in rule, ...)
json_key(chars) ==
    IF \E k \in DOMAIN KeyChars : KeyChars[k] = chars
    THEN CHOOSE k \in DOMAIN KeyChars : KeyChars[k] = chars
    ELSE "other"

\* the objects of the "rules" array whose tokens start behind its bracket
RECURSIVE json_read_rules(_, _, _)
json_read_rules(toks, i, acc) ==
    IF IsPunct(toks[i], "]") THEN [rules |-> acc, next |-> i + 1]
    ELSE IF IsPunct(toks[i], ",") THEN json_read_rules(toks, i + 1, acc)
    ELSE LET vals == json_read_strings(toks, i + 4, <<>>)
         IN json_read_rules(toks, vals.next + 1,
                Append(acc, [key |-> json_key(toks[i + 1].v), vals |-> vals.vals]))

\* json.load(f) of a file written by json_dump: the document
json_load(text) ==
    LET toks == json_tokens(text, 1)
        rules == json_read_rules(toks, 5, <<>>)
    IN [rules |-> rules.rules, version |-> StrToInt(toks[rules.next + 3].v)]

(***************************************************************************)
(* list_to_json_converter.py: merge_json_files                             *)
(***************************************************************************)
\* the body of the loop over data["rules"]
extend_rule(merged_data, rule) ==
    IF rule.key = "domain"
    THEN [merged_data EXCEPT !.domain = @ \o rule.vals]
    ELSE IF rule.key = "domain_keyword"
    THEN [merged_data EXCEPT !.domain_keyword = @ \o rule.vals]
    ELSE IF rule.key = "domain_suffix"
    THEN [merged_data EXCEPT !.domain_suffix = @ \o rule.vals]
    ELSE IF rule.key = "ip_cidr"
    THEN [merged_data EXCEPT !.ip_cidr = @ \o rule.vals]
    ELSE merged_data

RECURSIVE extend_rules(_, _)
extend_rules(merged_data, rules) ==
    IF rules = <<>> THEN merged_data
    ELSE extend_rules(extend_rule(merged_data, Head(rules)), Tail(rules))

\* the loop over json_files, docs being the documents read from them
RECURSIVE extend_docs(_, _)
extend_docs(merged_data, docs) ==
    IF docs = <<>> THEN merged_data
    ELSE extend_docs(extend_rules(merged_data, Head(docs).rules), Tail(docs))

\* a variant that leaves out the deduplication
list_set_keep_all(xs, order) == xs

\* list(set(xs)): the distinct elements of xs, in the order in which the
\* set happens to be iterated
list_set(xs, order) == Filter(order, Range(xs))

\* merge_json_files(json_files, output_path, version): the merged document,
\* orders giving for each partition the iteration order of its set
merge_json_files(docs, version, orders) ==
    LET all == extend_docs(EmptyRulesData, docs)
    IN [rules |-> final_rules(
                      [domain         |-> list_set(all.domain, orders.domain),
                       domain_keyword |-> list_set(all.domain_keyword, orders.domain_keyword),
                       domain_suffix  |-> list_set(all.domain_suffix, orders.domain_suffix),
                       ip_cidr        |-> list_set(all.ip_cidr, orders.ip_cidr)]),
        version |-> version]

\* the iteration orders the four sets of merge_json_files can have
SetOrders(docs) ==
    LET all == extend_docs(EmptyRulesData, docs)
    IN [domain : Iter(Range(all.domain)),
        domain_keyword : Iter(Range(all.domain_keyword)),
        domain_suffix : Iter(Range(all.domain_suffix)),
        ip_cidr : Iter(Range(all.ip_cidr))]

(***************************************************************************)
(* domain_merge_optimizer.py: load_existing_domains and the steps of main  *)
(***************************************************************************)
existing_line(domains, raw) ==
    LET line == Strip(raw) IN
    IF line # <<>> /\ ~StartsWith(line, P_COMMENT) THEN domains \cup {line}
    ELSE domains

RECURSIVE existing_lines(_, _)
existing_lines(domains, lines) ==
    IF lines = <<>> THEN domains
    ELSE existing_lines(existing_line(domains, Head(lines)), Tail(lines))

\* load_existing_domains(filepath), file being the file at that path
load_existing_domains(file) ==
    IF ~file.exists THEN {}
    ELSE existing_lines({}, FileLines(file.text))

\* a variant that assigns instead of updating
update_sets_assign(acc, parsed) == parsed

\* all_domains.update(domains); all_suffixes.update(suffixes)
update_sets(acc, parsed) ==
    [domains |-> acc.domains \cup parsed.domains,
     domain_suffixes |-> acc.domain_suffixes \cup parsed.domain_suffixes]

\* step 3 of main: the loop over loaded_files, given the texts of the files
RECURSIVE parse_all(_, _)
parse_all(acc, files) ==
    IF files = <<>> THEN acc
    ELSE parse_all(update_sets(acc, opt_parse_list_file(Head(files))), Tail(files))

\* a variant that leaves out all_domains.update(all_suffixes)
merge_domains_no_suffixes(domains, existing, suffixes) == domains \cup existing

\* step 5 of main: all_domains after the two updates
merge_domains(domains, existing, suffixes) == (domains \cup existing) \cup suffixes

(***************************************************************************)
(* domain_merge_optimizer.py: save_domains                                 *)
(***************************************************************************)
\* a variant that compares the values as they are spelled
sort_key_plain(x) == x

\* key=lambda x: x.lower()
sort_key(x) == Lower(x)

\* the place of x in the sorted list r: behind every element whose key is
\* not greater (sorted is stable)
RECURSIVE insert_sorted(_, _)
insert_sorted(x, r) ==
    IF r = <<>> THEN <<x>>
    ELSE IF StrLess(sort_key(x), sort_key(Head(r))) THEN <<x>> \o r
    ELSE <<Head(r)>> \o insert_sorted(x, Tail(r))

RECURSIVE sorted_from(_, _)
sorted_from(q, r) ==
    IF q = <<>> THEN r
    ELSE sorted_from(Tail(q), insert_sorted(Head(q), r))

\* sorted(domains, key=lambda x: x.lower()), domains being the set in the
\* order in which it is iterated
sorted(domains) == sorted_from(domains, <<>>)

\* what can happen to the write of n lines: open() raises, or the file is
\* opened (and truncated) and written lines are written before a write raises
\* (written = n: none raises)
WriteOutcomes(n) ==
    {[opened |-> FALSE, written |-> 0]}
    \cup {[opened |-> TRUE, written |-> k] : k \in 0..n}

\* a variant that writes the domains without the newline after each
save_domains_no_newline(domains, file, io) ==
    LET sorted_domains == sorted(domains) IN
    IF ~io.opened
    THEN [file |-> file, message |-> "save failed"]
    ELSE [file |-> [exists |-> TRUE,
                    text |-> Join(SubSeq(sorted_domains, 1, io.written), <<>>)],
          message |-> IF io.written = Len(sorted_domains)
                      THEN "saved" ELSE "save failed"]

\* save_domains(domains, filepath): the file at filepath afterwards and the
\* message printed, file being the file at filepath before and io what
\* happens to the write
save_domains(domains, file, io) ==
    LET sorted_domains == sorted(domains) IN
    IF ~io.opened
    THEN [file |-> file, message |-> "save failed"]
    ELSE [file |-> [exists |-> TRUE,
                    text |-> Text(SubSeq(sorted_domains, 1, io.written))],
          message |-> IF io.written = Len(sorted_domains)
                      THEN "saved" ELSE "save failed"]

(***************************************************************************)
(* Values the optimizer is exercised on                                    *)
(***************************************************************************)
D_c    == <<"c">>
D_bc   == <<"b", ".", "c">>
D_abc  == <<"a", ".", "b", ".", "c">>
D_ab_c == <<"a", "b", ".", "c">>
D_bd   == <<"b", ".", "d">>
D_Bd   == <<"B", ".", "d">>

DomainPool == {D_c, D_bc, D_abc, D_ab_c, D_bd}

CoverAlphabet == {"a", "b", "."}

(***************************************************************************)
(* Rule lines the parsers are exercised on                                 *)
(***************************************************************************)
T_domain == <<"d", "o", "m", "a", "i", "n">>
T_domain_suffix == <<"d", "o", "m", "a", "i", "n", "-", "s", "u", "f", "f", "i", "x">>
T_FOO == <<"F", "O", "O">>
M_no_resolve == <<"n", "o", "-", "r", "e", "s", "o", "l", "v", "e">>
V_ab == <<"a", "b">>
V_ip == <<"1", "/", "8">>
V_ip6 == <<":", ":", "/", "8">>
V_quote == <<"a", "\"", "\\">>

L_domain         == P_DOMAIN \o D_bc
L_domain_lower   == T_domain \o <<",">> \o D_bc
L_domain_empty   == P_DOMAIN
L_domain_nocomma == T_DOMAIN
L_domain_space   == P_DOMAIN \o <<" ">> \o D_bd
L_domain_commas  == P_DOMAIN \o D_c \o <<",">> \o D_bd
L_domain_padded  == <<" ">> \o P_DOMAIN \o D_bc \o <<" ">>
L_suffix         == P_DOMAIN_SUFFIX \o D_c
L_suffix_lower   == T_domain_suffix \o <<",">> \o D_c
L_keyword        == P_DOMAIN_KEYWORD \o V_ab
L_ip             == P_IP_CIDR \o V_ip \o <<",">> \o M_no_resolve
L_ip_space       == P_IP_CIDR \o <<" ">> \o V_ip \o <<" ", ",">> \o M_no_resolve
L_ip6            == P_IP_CIDR6 \o V_ip6
L_user_agent     == T_USER_AGENT \o <<",">> \o V_ab
L_unknown        == T_FOO \o <<",">> \o V_ab
L_comment        == K_NAME \o <<" ">> \o V_ab
L_blank          == <<>>

LinePool ==
    {L_domain, L_domain_lower, L_domain_empty, L_domain_nocomma, L_domain_space,
     L_domain_commas, L_domain_padded, L_suffix, L_suffix_lower, L_keyword,
     L_ip, L_ip_space, L_ip6, L_user_agent, L_unknown, L_comment, L_blank}

Versions == {1, 2}

(***************************************************************************)
(* Source files and prior rule sets the runs are exercised on              *)
(***************************************************************************)
L_domain_abc  == P_DOMAIN \o D_abc
L_domain_ab_c == P_DOMAIN \o D_ab_c
L_suffix_bc   == P_DOMAIN_SUFFIX \o D_bc
L_keyword_quote == P_DOMAIN_KEYWORD \o V_quote

F_1 == Text(<<L_domain_abc, L_suffix_bc, L_ip>>)
F_2 == Text(<<L_suffix, L_domain_space, L_keyword, L_comment>>)
F_3 == Text(<<L_domain, L_domain_ab_c, L_ip_space, L_user_agent, L_domain>>)
F_4 == Text(<<L_domain_lower, L_unknown, L_domain_empty, L_ip, L_keyword_quote>>)
F_5 == <<>>

FilePool == {F_1, F_2, F_3, F_4, F_5}

NoFile == [exists |-> FALSE, text |-> <<>>]

PriorPool ==
    {NoFile,
     [exists |-> TRUE, text |-> Text(<<D_abc, L_comment, D_bd>>)],
     [exists |-> TRUE, text |-> Text(<<D_ab_c, D_bc>>)],
     [exists |-> TRUE, text |-> Text(<<D_Bd, D_abc>>)]}

\* a source of the run: whether its download or load succeeds, whether the
\* run gets a result from it (ok), and its text
FailedSource == [ok |-> FALSE, downloaded |-> FALSE, text |-> <<>>]

SourcePool ==
    {[ok |-> TRUE, downloaded |-> TRUE, text |-> f] : f \in FilePool} \cup {FailedSource}

\* a source download_file fetches and convert_list_to_json returns False for
UnconvertedSource == [ok |-> FALSE, downloaded |-> TRUE, text |-> <<>>]

JsonSourcePool == SourcePool \cup {UnconvertedSource}

Scripts == {"domain_merge_optimizer", "list_to_json_converter", "list_to_yaml_converter"}

NonEmptySeqsUpTo(A, n) == UNION {[1..k -> A] : k \in 1..n}

SmallSets(P) == {X \in SUBSET P : Cardinality(X) <= MaxSetSize}

(***************************************************************************)
(* State                                                                   *)
(***************************************************************************)
VARIABLES
    domain,             \* is_subdomain_of: argument domain
    suffix,             \* is_subdomain_of: argument suffix
    covers,             \* is_subdomain_of: returned value
    all_domains,        \* main: all_domains
    all_suffixes,       \* main: all_suffixes
    optimized_domains,  \* main: optimized_domains
    reoptimized,        \* optimize_domains applied to its own output
    content,            \* the text of the .list source given to the parsers
    version,            \* the version argument of the run
    opt_parsed,         \* domain_merge_optimizer.parse_list_file: returned sets
    json_doc,           \* convert_list_to_json: the document written
    yaml_data,          \* list_to_yaml_converter.parse_list_file: returned dict
    l2j_doc,            \* list_to_json: the document written
    script,             \* which of the scripts this run executes
    loaded_files,       \* main: the texts of the files of loaded_files, in order
    sample_file,        \* main: the file at sample_file (the prior rule set)
    pc,                 \* main: the step the merge run is at
    parsed_count,       \* main: files of loaded_files the step 3 loop has done
    existing_domains,   \* main: existing_domains
    merged_json,        \* merge_json_files: the merged document
    merged_yaml,        \* merge_yaml_files: the merged rules and payload
    yaml_contents,      \* list_to_yaml_converter.main: the YAML texts collected
    sources,            \* main, batch_process: the sources (URLs) of the run
    printed,            \* the outcome messages the run has printed
    artifact,           \* the state of the final output file of the run
    exit_status,        \* how the process has ended, "running" before
    temp_files,         \* batch_process: the sources whose .list file is in temp_dir
    temp_dir,           \* batch_process: the state of the temp_downloads directory
    outputs,            \* what save_domains did in each merge run so far, in order
    called              \* the calls made so far, by name

coverVars == <<domain, suffix, covers>>
optVars == <<all_domains, all_suffixes, optimized_domains, reoptimized>>
parseVars == <<content, version, opt_parsed, json_doc, yaml_data, l2j_doc>>
aggVars == <<script, loaded_files, sample_file, pc, parsed_count, existing_domains,
             merged_json, merged_yaml, yaml_contents, sources, printed, artifact,
             exit_status, temp_files, temp_dir, outputs>>
tempVars == <<temp_files, temp_dir>>
vars == <<coverVars, optVars, parseVars, aggVars, called>>

CoverIdle == domain = <<>> /\ suffix = <<>> /\ covers = FALSE
OptIdle ==
    /\ all_domains = {} /\ all_suffixes = {}
    /\ optimized_domains = {} /\ reoptimized = {}
ParseResultsInit ==
    /\ opt_parsed = opt_parse_list_file(<<>>)
    /\ json_doc = convert_list_to_json(<<>>, 2)
    /\ yaml_data = yaml_parse_list_file(<<>>)
    /\ l2j_doc = list_to_json(<<>>, 2)
ParseIdle == content = <<>> /\ version = 2 /\ ParseResultsInit
AggResultsInit ==
    /\ parsed_count = 0
    /\ existing_domains = {}
    /\ merged_json = [rules |-> <<>>, version |-> 2]
    /\ merged_yaml = merge_yaml_files(<<>>)
    /\ yaml_contents = <<>>
RunInit ==
    /\ printed = {} /\ artifact = "none" /\ exit_status = "running"
    /\ temp_files = {} /\ temp_dir = "none"
AggIdle ==
    /\ script = "none"
    /\ sources = <<>>
    /\ outputs = <<>>
    /\ loaded_files = <<>> /\ sample_file = NoFile /\ pc = "idle"
    /\ AggResultsInit
    /\ RunInit

(***************************************************************************)
(* SpecCovers: is_subdomain_of on every pair of short strings              *)
(***************************************************************************)
InitCovers ==
    /\ domain \in StringsUpTo(CoverAlphabet, MaxStrLen)
    /\ suffix \in StringsUpTo(CoverAlphabet, MaxStrLen)
    /\ covers = FALSE
    /\ called = {}
    /\ OptIdle
    /\ ParseIdle
    /\ AggIdle

CallIsSubdomainOf ==
    /\ "is_subdomain_of" \notin called
    /\ covers' = is_subdomain_of(domain, suffix)
    /\ called' = called \cup {"is_subdomain_of"}
    /\ UNCHANGED <<domain, suffix, optVars, parseVars, aggVars>>

NextCovers == CallIsSubdomainOf

SpecCovers == InitCovers /\ [][NextCovers]_vars

(***************************************************************************)
(* SpecOptimize: optimize_domains on bounded sets, then on its own output  *)
(***************************************************************************)
InitOptimize ==
    /\ all_domains \in SmallSets(DomainPool)
    /\ all_suffixes \in SmallSets(DomainPool)
    /\ optimized_domains = {}
    /\ reoptimized = {}
    /\ called = {}
    /\ CoverIdle
    /\ ParseIdle
    /\ AggIdle

CallOptimize ==
    /\ "optimize_domains" \notin called
    /\ called' = called \cup {"optimize_domains"}
    /\ \E ds \in Iter(all_domains), ss \in Iter(all_suffixes) :
          optimized_domains' = optimize_domains(ds, ss)
    /\ UNCHANGED <<all_domains, all_suffixes, reoptimized, coverVars, parseVars, aggVars>>

CallOptimizeAgain ==
    /\ "optimize_domains" \in called
    /\ "optimize_domains again" \notin called
    /\ called' = called \cup {"optimize_domains again"}
    /\ \E ds \in Iter(optimized_domains), ss \in Iter(all_suffixes) :
          reoptimized' = optimize_domains(ds, ss)
    /\ UNCHANGED <<all_domains, all_suffixes, optimized_domains, coverVars, parseVars, aggVars>>

NextOptimize == CallOptimize \/ CallOptimizeAgain

SpecOptimize == InitOptimize /\ [][NextOptimize]_vars

(***************************************************************************)
(* SpecParse: the four parsers on the same bounded source text. The four   *)
(* calls share no state, so they are taken in one fixed order.             *)
(***************************************************************************)
InitParse ==
    /\ content \in {Text(ls) : ls \in StringsUpTo(LinePool, MaxLines)}
    /\ version \in Versions
    /\ ParseResultsInit
    /\ called = {}
    /\ CoverIdle
    /\ OptIdle
    /\ AggIdle

CallOptParse ==
    /\ "opt_parse_list_file" \notin called
    /\ called' = called \cup {"opt_parse_list_file"}
    /\ opt_parsed' = opt_parse_list_file(content)
    /\ UNCHANGED <<content, version, json_doc, yaml_data, l2j_doc, coverVars, optVars, aggVars>>

CallConvertListToJson ==
    /\ "opt_parse_list_file" \in called
    /\ "convert_list_to_json" \notin called
    /\ called' = called \cup {"convert_list_to_json"}
    /\ json_doc' = convert_list_to_json(content, version)
    /\ UNCHANGED <<content, version, opt_parsed, yaml_data, l2j_doc, coverVars, optVars, aggVars>>

CallYamlParse ==
    /\ "convert_list_to_json" \in called
    /\ "yaml_parse_list_file" \notin called
    /\ called' = called \cup {"yaml_parse_list_file"}
    /\ yaml_data' = yaml_parse_list_file(content)
    /\ UNCHANGED <<content, version, opt_parsed, json_doc, l2j_doc, coverVars, optVars, aggVars>>

CallListToJson ==
    /\ "yaml_parse_list_file" \in called
    /\ "list_to_json" \notin called
    /\ called' = called \cup {"list_to_json"}
    /\ l2j_doc' = list_to_json(content, version)
    /\ UNCHANGED <<content, version, opt_parsed, json_doc, yaml_data, coverVars, optVars, aggVars>>

NextParse ==
    \/ CallOptParse
    \/ CallConvertListToJson
    \/ CallYamlParse
    \/ CallListToJson

SpecParse == InitParse /\ [][NextParse]_vars

(***************************************************************************)
(* SpecAggregate: one run of one of the three scripts over the same        *)
(* sources: the merge run (main of domain_merge_optimizer.py, steps 2 to   *)
(* 7), batch_process of list_to_json_converter.py and main of              *)
(* list_to_yaml_converter.py                                               *)
(***************************************************************************)
\* the texts of the sources that were downloaded or loaded, in order
RECURSIVE load_sources(_)
load_sources(srcs) ==
    IF srcs = <<>> THEN <<>>
    ELSE (IF Head(srcs).ok THEN <<Head(srcs).text>> ELSE <<>>)
         \o load_sources(Tail(srcs))

\* the state of a file of n parts after open(path, 'w') and the writes
artifact_after(io, n) ==
    IF ~io.opened THEN "none"
    ELSE IF io.written = n THEN "complete"
    ELSE "partial"

InitAggregate ==
    /\ script \in Scripts
    /\ sources \in StringsUpTo(IF script = "list_to_json_converter"
                                THEN JsonSourcePool ELSE SourcePool, MaxSources)
    /\ loaded_files = <<>>
    /\ sample_file \in (IF script = "domain_merge_optimizer" THEN PriorPool ELSE {NoFile})
    /\ version \in (IF script = "list_to_json_converter" THEN Versions ELSE {2})
    /\ pc = "load"
    /\ outputs = <<>>
    /\ AggResultsInit
    /\ RunInit
    /\ all_domains = {} /\ all_suffixes = {}
    /\ optimized_domains = {} /\ reoptimized = {}
    /\ content = <<>> /\ ParseResultsInit
    /\ called = {}
    /\ CoverIdle

\* main, step 2: the loop over sources, and the two exits when there is no
\* source or no file was loaded
MainLoadFiles ==
    /\ script = "domain_merge_optimizer"
    /\ pc = "load"
    /\ loaded_files' = load_sources(sources)
    /\ IF Len(sources) = 0 \/ Len(load_sources(sources)) = 0
       THEN /\ printed' = printed \cup {"error: nothing loaded"}
            /\ exit_status' = "exit 1"
            /\ pc' = "exit"
       ELSE /\ pc' = "parse"
            /\ UNCHANGED <<printed, exit_status>>
    /\ UNCHANGED <<outputs, tempVars, script, sources, sample_file, parsed_count, existing_domains,
                   merged_json, merged_yaml, yaml_contents, artifact,
                   optVars, coverVars, parseVars, called>>

\* step 3: one iteration of the loop over loaded_files
ParseNextFile ==
    /\ pc = "parse"
    /\ parsed_count < Len(loaded_files)
    /\ LET acc == update_sets([domains |-> all_domains, domain_suffixes |-> all_suffixes],
                              opt_parse_list_file(loaded_files[parsed_count + 1]))
       IN /\ all_domains' = acc.domains
          /\ all_suffixes' = acc.domain_suffixes
    /\ parsed_count' = parsed_count + 1
    /\ pc' = IF parsed_count + 1 = Len(loaded_files) THEN "load_existing" ELSE "parse"
    /\ UNCHANGED <<outputs, tempVars, script, sources, loaded_files, sample_file, existing_domains,
                   merged_json, merged_yaml, yaml_contents, printed, artifact, exit_status,
                   optimized_domains, reoptimized, coverVars, parseVars, called>>

\* step 4: load_existing_domains(sample_file)
LoadExisting ==
    /\ pc = "load_existing"
    /\ existing_domains' = load_existing_domains(sample_file)
    /\ pc' = "merge"
    /\ UNCHANGED <<outputs, tempVars, script, sources, loaded_files, sample_file, parsed_count,
                   merged_json, merged_yaml, yaml_contents, printed, artifact, exit_status,
                   optVars, coverVars, parseVars, called>>

\* step 5: the prior domains and the suffixes join all_domains
MergeDomains ==
    /\ pc = "merge"
    /\ all_domains' = merge_domains(all_domains, existing_domains, all_suffixes)
    /\ pc' = "optimize"
    /\ UNCHANGED <<outputs, tempVars, script, sources, loaded_files, sample_file, parsed_count,
                   existing_domains, merged_json, merged_yaml, yaml_contents, printed, artifact,
                   exit_status, all_suffixes, optimized_domains, reoptimized,
                   coverVars, parseVars, called>>

\* step 6: optimize_domains(all_domains, all_suffixes)
MainOptimize ==
    /\ pc = "optimize"
    /\ \E ds \in Iter(all_domains), ss \in Iter(all_suffixes) :
          optimized_domains' = optimize_domains(ds, ss)
    /\ pc' = "save"
    /\ UNCHANGED <<outputs, tempVars, script, sources, loaded_files, sample_file, parsed_count,
                   existing_domains, merged_json, merged_yaml, yaml_contents, printed, artifact,
                   exit_status, all_domains, all_suffixes, reoptimized,
                   coverVars, parseVars, called>>

\* step 7: save_domains(optimized_domains, output_file); output_file is the
\* path of sample_file
MainSave ==
    /\ pc = "save"
    /\ \E ds \in Iter(optimized_domains), io \in WriteOutcomes(Cardinality(optimized_domains)) :
          /\ sample_file' = save_domains(ds, sample_file, io).file
          /\ printed' = printed \cup {save_domains(ds, sample_file, io).message}
          /\ artifact' = artifact_after(io, Cardinality(optimized_domains))
          /\ outputs' = Append(outputs, save_domains(ds, sample_file, io))
    /\ pc' = "summary"
    /\ UNCHANGED <<tempVars, script, sources, loaded_files, parsed_count, existing_domains,
                   merged_json, merged_yaml, yaml_contents, exit_status,
                   optVars, coverVars, parseVars, called>>

\* the rest of main: the closing summary and the return
MainSummary ==
    /\ script = "domain_merge_optimizer"
    /\ pc = "summary"
    /\ printed' = printed \cup {"summary"}
    /\ exit_status' = "exit 0"
    /\ pc' = "exit"
    /\ UNCHANGED <<outputs, tempVars, script, sources, loaded_files, sample_file, parsed_count,
                   existing_domains, merged_json, merged_yaml, yaml_contents, artifact,
                   optVars, coverVars, parseVars, called>>

\* the documents convert_list_to_json wrote for the sources, in order
JsonDocs(files, v) == [i \in 1..Len(files) |-> convert_list_to_json(files[i], v)]

\* these documents as merge_json_files reads them back from the files
JsonFilesRead(files, v) ==
    [i \in 1..Len(files) |-> json_load(json_dump(convert_list_to_json(files[i], v)))]

\* the YAML texts process_url returned for the sources, in order
YamlContents(files) ==
    [i \in 1..Len(files) |-> convert_to_yaml(yaml_parse_list_file(files[i]))]

\* batch_process: list_files, the sources whose .list file download_file
\* has put into temp_dir
list_files(srcs) == {i \in 1..Len(srcs) : srcs[i].downloaded}

\* cleanup_temp_files(temp_files, temp_dir): each of files is removed from
\* those present in the directory, then os.rmdir is tried, which removes an
\* empty directory only
cleanup_temp_files(present, files) ==
    [files |-> present \ files,
     dir |-> IF present \ files = {} THEN "removed" ELSE "rmdir failed"]

\* batch_process: the loop over urls (a source is ok when it was downloaded
\* and converted), and the return of False when json_files is empty, which
\* main turns into sys.exit(1)
BatchProcessUrls ==
    /\ script = "list_to_json_converter"
    /\ pc = "load"
    /\ loaded_files' = load_sources(sources)
    /\ IF Len(load_sources(sources)) = 0
       THEN /\ printed' = printed \cup {"error: nothing converted"}
            /\ temp_files' =
                  cleanup_temp_files(list_files(sources), list_files(sources)).files
            /\ temp_dir' =
                  IF list_files(sources) # {}
                  THEN cleanup_temp_files(list_files(sources), list_files(sources)).dir
                  ELSE "removed"
            /\ exit_status' = "exit 1"
            /\ pc' = "exit"
       ELSE /\ pc' = "merge_json"
            /\ temp_files' = list_files(sources)
            /\ temp_dir' = "created"
            /\ UNCHANGED <<printed, exit_status>>
    /\ UNCHANGED <<outputs, script, sources, sample_file, parsed_count, existing_domains,
                   merged_json, merged_yaml, yaml_contents, artifact,
                   optVars, coverVars, parseVars, called>>

\* batch_process: merge_json_files(json_files, merged_filepath, version) and
\* the return, which main turns into the exit status
MergeJsonFiles ==
    /\ script = "list_to_json_converter"
    /\ pc = "merge_json"
    /\ called' = called \cup {"merge_json_files"}
    /\ \E orders \in SetOrders(JsonFilesRead(loaded_files, version)) :
          merged_json' = merge_json_files(JsonFilesRead(loaded_files, version), version, orders)
    /\ \E io \in WriteOutcomes(1) :
          /\ artifact' = artifact_after(io, 1)
          /\ IF artifact_after(io, 1) = "complete"
             THEN /\ printed' = printed \cup {"merged", "summary"}
                  /\ temp_files' = cleanup_temp_files(temp_files, list_files(sources)).files
                  /\ temp_dir' = cleanup_temp_files(temp_files, list_files(sources)).dir
                  /\ exit_status' = "exit 0"
             ELSE /\ printed' = printed \cup {"merge write failed"}
                  /\ UNCHANGED tempVars
                  /\ exit_status' = "exit 1"
    /\ pc' = "exit"
    /\ UNCHANGED <<outputs, script, sources, loaded_files, sample_file, parsed_count,
                   existing_domains, merged_yaml, yaml_contents, optVars, coverVars, parseVars>>

\* list_to_yaml_converter.main: the loop over urls calling process_url
YamlProcessUrls ==
    /\ script = "list_to_yaml_converter"
    /\ pc = "load"
    /\ loaded_files' = load_sources(sources)
    /\ yaml_contents' = YamlContents(load_sources(sources))
    /\ pc' = IF Len(load_sources(sources)) = 0 THEN "summary" ELSE "merge_yaml"
    /\ UNCHANGED <<outputs, tempVars, script, sources, sample_file, parsed_count, existing_domains,
                   merged_json, merged_yaml, printed, artifact, exit_status,
                   optVars, coverVars, parseVars, called>>

\* list_to_yaml_converter.main: merge_yaml_files(yaml_contents, output_dir);
\* an error of the write is caught by the handler of main, which exits with 1
MergeYamlFiles ==
    /\ script = "list_to_yaml_converter"
    /\ pc = "merge_yaml"
    /\ called' = called \cup {"merge_yaml_files"}
    /\ merged_yaml' = merge_yaml_files(yaml_contents)
    /\ \E io \in WriteOutcomes(1) :
          /\ artifact' = artifact_after(io, 1)
          /\ IF artifact_after(io, 1) = "complete"
             THEN /\ printed' = printed \cup {"merged"}
                  /\ pc' = "summary"
                  /\ UNCHANGED exit_status
             ELSE /\ printed' = printed \cup {"program error"}
                  /\ exit_status' = "exit 1"
                  /\ pc' = "exit"
    /\ UNCHANGED <<outputs, tempVars, script, sources, loaded_files, sample_file, parsed_count,
                   existing_domains, merged_json, yaml_contents,
                   optVars, coverVars, parseVars>>

\* list_to_yaml_converter.main: the closing summary and the return
YamlSummary ==
    /\ script = "list_to_yaml_converter"
    /\ pc = "summary"
    /\ printed' = printed \cup {"summary"}
    /\ exit_status' = "exit 0"
    /\ pc' = "exit"
    /\ UNCHANGED <<outputs, tempVars, script, sources, loaded_files, sample_file, parsed_count,
                   existing_domains, merged_json, merged_yaml, yaml_contents, artifact,
                   optVars, coverVars, parseVars, called>>

NextAggregate ==
    \/ MainLoadFiles
    \/ ParseNextFile
    \/ LoadExisting
    \/ MergeDomains
    \/ MainOptimize
    \/ MainSave
    \/ MainSummary
    \/ BatchProcessUrls
    \/ MergeJsonFiles
    \/ YamlProcessUrls
    \/ MergeYamlFiles
    \/ YamlSummary

SpecAggregate == InitAggregate /\ [][NextAggregate]_vars

(***************************************************************************)
(* SpecRerun: the merge run, run again on the file it has written          *)
(***************************************************************************)
\* number of runs of the merge script that are followed
MaxRuns == 2

InitRerun ==
    /\ InitAggregate
    /\ script = "domain_merge_optimizer"

\* main is started again after a run that has saved its output, with the
\* same sources; sample_file is the file that run has written at the path
MainAgain ==
    /\ script = "domain_merge_optimizer"
    /\ pc = "exit"
    /\ "saved" \in printed
    /\ Len(outputs) < MaxRuns
    /\ loaded_files' = <<>>
    /\ pc' = "load"
    /\ parsed_count' = 0
    /\ existing_domains' = {}
    /\ all_domains' = {} /\ all_suffixes' = {} /\ optimized_domains' = {}
    /\ printed' = {} /\ artifact' = "none" /\ exit_status' = "running"
    /\ UNCHANGED <<outputs, tempVars, script, sources, sample_file, merged_json,
                   merged_yaml, yaml_contents, reoptimized, coverVars, parseVars, called>>

NextRerun ==
    \/ MainLoadFiles
    \/ ParseNextFile
    \/ LoadExisting
    \/ MergeDomains
    \/ MainOptimize
    \/ MainSave
    \/ MainSummary
    \/ MainAgain

SpecRerun == InitRerun /\ [][NextRerun]_vars

(***************************************************************************)
(* The covering relation as the specification states it                    *)
(***************************************************************************)
\* the list q holds no element twice
NoDuplicates(q) == \A i, j \in 1..Len(q) : i # j => q[i] # q[j]

\* the array of the partition key of a JSON "rules" array, empty when absent
RECURSIVE PartitionVals(_, _)
PartitionVals(rules, key) ==
    IF rules = <<>> THEN <<>>
    ELSE IF Head(rules).key = key THEN Head(rules).vals
    ELSE PartitionVals(Tail(rules), key)

\* d is not s and the last Len(s)+1 characters of d are a dot followed by s
StrictChild(d, s) ==
    /\ d # s
    /\ Len(d) >= Len(s) + 1
    /\ d[Len(d) - Len(s)] = "."
    /\ \A i \in 1..Len(s) : d[Len(d) - Len(s) + i] = s[i]

(***************************************************************************)
(* C1: optimize_domains returns exactly the uncovered domains              *)
(***************************************************************************)
\* C1: after optimize_domains(D, S), in whatever order the two loops visit
\* the sets, the result is the set of the d in D that are a strict child of
\* no s in S: covered domains are dropped, uncovered ones retained
C1_OptimizeExact ==
    "optimize_domains" \in called =>
        optimized_domains =
            {d \in all_domains : ~ \E s \in all_suffixes : StrictChild(d, s)}

\* a run where a domain was dropped because of the second of two suffixes
\* and another domain was retained
C1_Witness ==
    /\ "optimize_domains" \in called
    /\ all_domains = {D_abc, D_ab_c}
    /\ all_suffixes = {D_bd, D_bc}
    /\ optimized_domains = {D_ab_c}

(***************************************************************************)
(* C3: optimize_domains is idempotent                                      *)
(***************************************************************************)
\* C3: applying optimize_domains to its own output with the same suffix set
\* returns that output unchanged
C3_Idempotent ==
    "optimize_domains again" \in called => reoptimized = optimized_domains

\* the second application ran on an output from which the first application
\* had removed something and in which something was left
C3_Witness ==
    /\ "optimize_domains again" \in called
    /\ optimized_domains # all_domains
    /\ optimized_domains # {}
    /\ reoptimized # {}

(***************************************************************************)
(* C4: what optimization leaves of the collected DOMAIN-SUFFIX values      *)
(***************************************************************************)
\* C4 as claimed: when the merge run has optimized the collection to which
\* it added every collected suffix, every value of all_suffixes is in the
\* optimized collection
C4_AllSuffixesKept ==
    pc = "save" => all_suffixes \subseteq optimized_domains

\* C4 as amended: when the merge run has optimized, every value of
\* all_suffixes that is not a strict dot-separated child of another value of
\* all_suffixes is in the optimized collection
C4_TopSuffixesKept ==
    pc = "save" =>
        \A s \in all_suffixes :
            (~ \E t \in all_suffixes : StrictChild(s, t)) => s \in optimized_domains

\* the run has optimized a collection with two suffixes, one the child of
\* the other: the parent is kept, the child removed
C4_Witness ==
    /\ pc = "save"
    /\ all_suffixes = {D_bc, D_c}
    /\ D_c \in optimized_domains
    /\ D_bc \notin optimized_domains

(***************************************************************************)
(* C5: aggregation does not depend on the order of the sources             *)
(***************************************************************************)
\* the sequences that hold the same sources as q in another order
Reorderings(q) ==
    {[i \in 1..Len(q) |-> q[pi[i]]] : pi \in Iter(1..Len(q))}

NoSets == [domains |-> {}, domain_suffixes |-> {}]

\* the set of values of each partition of a JSON rule document
PartitionSets(doc) ==
    [key \in {"domain", "domain_keyword", "domain_suffix", "ip_cidr"} |->
        Range(PartitionVals(doc.rules, key))]

\* the list q without the later occurrences of its elements
RECURSIVE Dedup(_)
Dedup(q) ==
    IF q = <<>> THEN <<>>
    ELSE LET front == Dedup(SubSeq(q, 1, Len(q) - 1))
         IN IF q[Len(q)] \in Range(front) THEN front ELSE Append(front, q[Len(q)])

\* the merged document for the given source documents under one iteration
\* order of the sets (that of first occurrence)
MergedDocOf(docs, v) ==
    LET all == extend_docs(EmptyRulesData, docs)
    IN merge_json_files(docs, v,
           [domain         |-> Dedup(all.domain),
            domain_keyword |-> Dedup(all.domain_keyword),
            domain_suffix  |-> Dedup(all.domain_suffix),
            ip_cidr        |-> Dedup(all.ip_cidr)])

\* the merged document for the sources files
MergedJsonOf(files, v) == MergedDocOf(JsonDocs(files, v), v)

\* C5: whatever the order in which the same sources are processed, the merge
\* run collects the same all_domains and all_suffixes (after step 3 and
\* after step 5), merge_json_files gives the same set of values in each
\* partition and merge_yaml_files the same set of rules
C5_AggregationCommutes ==
    /\ \A files \in Reorderings(loaded_files) :
        /\ pc \in {"load_existing", "merge"} =>
              parse_all(NoSets, files) =
                  [domains |-> all_domains, domain_suffixes |-> all_suffixes]
        /\ pc \in {"optimize", "save"} =>
              LET parsed == parse_all(NoSets, files)
              IN /\ parsed.domain_suffixes = all_suffixes
                 /\ merge_domains(parsed.domains, existing_domains,
                                  parsed.domain_suffixes) = all_domains
        /\ "merge_yaml_files" \in called =>
              Range(merge_yaml_files(YamlContents(files)).all_rules)
                  = Range(merged_yaml.all_rules)
    /\ "merge_json_files" \in called =>
          \* the documents of the reordered sources are the reordered documents
          \A docs \in Reorderings(JsonDocs(loaded_files, version)) :
              PartitionSets(MergedDocOf(docs, version)) = PartitionSets(merged_json)

\* the JSON merge has run on two different sources that share a value
C5_Witness ==
    /\ "merge_json_files" \in called
    /\ loaded_files = <<F_1, F_4>>
    /\ Len(merged_json.rules) = 4

(***************************************************************************)
(* C6: aggregation is idempotent and deduplicating                         *)
(***************************************************************************)
\* C6: the merge run and the two merges give, for a list of sources with
\* repeated sources, the collection they give for the list without the
\* repetitions, and each partition array of the merged JSON document and the
\* merged YAML rules hold every value exactly once
C6_AggregationIdempotent ==
    /\ pc \in {"load_existing", "merge"} =>
          parse_all(NoSets, Dedup(loaded_files)) =
              [domains |-> all_domains, domain_suffixes |-> all_suffixes]
    /\ "merge_json_files" \in called =>
          /\ PartitionSets(MergedJsonOf(Dedup(loaded_files), version))
                 = PartitionSets(merged_json)
          /\ \A i \in 1..Len(merged_json.rules) : NoDuplicates(merged_json.rules[i].vals)
    /\ "merge_yaml_files" \in called =>
          /\ Range(merge_yaml_files(YamlContents(Dedup(loaded_files))).all_rules)
                 = Range(merged_yaml.all_rules)
          /\ NoDuplicates(merged_yaml.all_rules)

\* the JSON merge has run on a list that holds the same source twice, a
\* source that itself repeats a line
C6_Witness ==
    /\ "merge_json_files" \in called
    /\ loaded_files = <<F_3, F_3>>
    /\ PartitionVals(merged_json.rules, "domain") # <<>>

(***************************************************************************)
(* C7: the rule type token is matched case-insensitively                   *)
(***************************************************************************)
\* the line with everything before its first comma in upper case
UpperToken(line) ==
    IF Find(line, ",") = 0 THEN line
    ELSE Upper(SubSeq(line, 1, Find(line, ",") - 1))
         \o SubSeq(line, Find(line, ","), Len(line))

\* the text with the type token of every line in upper case
UpperTokens(text) ==
    LET lines == Split(text, "\n")
    IN Join([i \in 1..Len(lines) |-> UpperToken(lines[i])], <<"\n">>)

\* C7: every parser returns, for the source text, the records it returns for
\* the same text with each line's type token written in upper case
C7_TokenCaseInsensitive ==
    /\ "opt_parse_list_file" \in called =>
          opt_parsed = opt_parse_list_file(UpperTokens(content))
    /\ "convert_list_to_json" \in called =>
          json_doc.rules = convert_list_to_json(UpperTokens(content), version).rules
    /\ "yaml_parse_list_file" \in called =>
          yaml_data.rules = yaml_parse_list_file(UpperTokens(content)).rules
    /\ "list_to_json" \in called =>
          l2j_doc.rules = list_to_json(UpperTokens(content), version).rules

(***************************************************************************)
(* C8: no record has an empty value                                        *)
(***************************************************************************)
\* the values held by the partitions of a JSON rule document
DocValues(doc) == UNION {Range(doc.rules[i].vals) : i \in 1..Len(doc.rules)}

\* the value of a "TYPE,value" payload rule: what follows its first comma
RuleValue(rule) == Split1(rule, ",")[2]

\* C8: for any source text, no parser puts an empty string as a value into
\* a set, a partition array or a payload rule
C8_NoEmptyValue ==
    /\ "opt_parse_list_file" \in called =>
          <<>> \notin (opt_parsed.domains \cup opt_parsed.domain_suffixes)
    /\ "convert_list_to_json" \in called => <<>> \notin DocValues(json_doc)
    /\ "yaml_parse_list_file" \in called =>
          \A i \in 1..Len(yaml_data.rules) : RuleValue(yaml_data.rules[i]) # <<>>
    /\ "list_to_json" \in called => <<>> \notin DocValues(l2j_doc)

(***************************************************************************)
(* C9: parsing one source has set semantics                                *)
(***************************************************************************)
\* C9: for any source text, each partition array of the JSON document and
\* the YAML rules list hold every record at most once
C9_ParseSetSemantics ==
    /\ "convert_list_to_json" \in called =>
          \A i \in 1..Len(json_doc.rules) : NoDuplicates(json_doc.rules[i].vals)
    /\ "yaml_parse_list_file" \in called => NoDuplicates(yaml_data.rules)
    /\ "list_to_json" \in called =>
          \A i \in 1..Len(l2j_doc.rules) : NoDuplicates(l2j_doc.rules[i].vals)

(***************************************************************************)
(* C10: an IP-CIDR line records only its first field, stripped             *)
(***************************************************************************)
IsIpLine(line) ==
    /\ Find(line, ",") # 0
    /\ Split(Strip(line), ",")[1] \in {T_IP_CIDR, T_IP_CIDR6}

\* for the IP-CIDR and IP-CIDR6 lines of the text, in order: the first field
\* after the type token with surrounding whitespace removed
RECURSIVE IpFields(_)
IpFields(lines) ==
    IF lines = <<>> THEN <<>>
    ELSE (IF IsIpLine(Head(lines))
          THEN <<Strip(Split(Strip(Head(lines)), ",")[2])>> ELSE <<>>)
         \o IpFields(Tail(lines))

\* the same with the type token in front, as the payload spells a rule
RECURSIVE IpRules(_)
IpRules(lines) ==
    IF lines = <<>> THEN <<>>
    ELSE (IF IsIpLine(Head(lines))
          THEN <<Split(Strip(Head(lines)), ",")[1] \o <<",">>
                 \o Strip(Split(Strip(Head(lines)), ",")[2])>>
          ELSE <<>>)
         \o IpRules(Tail(lines))

IsIpRule(rule) == StartsWith(rule, P_IP_CIDR) \/ StartsWith(rule, P_IP_CIDR6)

\* C10: the ip_cidr array of the JSON document and the IP rules of the YAML
\* payload hold, for each IP-CIDR/IP-CIDR6 line, the first field after the
\* type token with surrounding whitespace removed and nothing of the
\* modifier fields
C10_IpFirstFieldStripped ==
    /\ "convert_list_to_json" \in called =>
          PartitionVals(json_doc.rules, "ip_cidr") = IpFields(Split(content, "\n"))
    /\ "yaml_parse_list_file" \in called =>
          SelectSeq(yaml_data.rules, IsIpRule) = IpRules(Split(content, "\n"))

(***************************************************************************)
(* C2: is_subdomain_of(d, s) is true iff d # s and d ends with "." + s     *)
(***************************************************************************)
\* C2: for all strings d and s the returned value is TRUE exactly when d is
\* not s and the last Len(s)+1 characters of d are a dot followed by s
C2_CoversIff ==
    "is_subdomain_of" \in called =>
        (covers <=> StrictChild(domain, suffix))

\* the call has decided a pair where the domain ends with the suffix but
\* without the separating dot, and has returned FALSE
C2_Witness ==
    /\ "is_subdomain_of" \in called
    /\ ~covers
    /\ domain = <<"a", "b">>
    /\ suffix = <<"b">>

(***************************************************************************)
(* C11: a domain line records the whole trimmed remainder after the first  *)
(* comma                                                                   *)
(***************************************************************************)
\* the type token of a line: what precedes its first comma
LineToken(line) == Split1(Strip(line), ",")[1]

\* the remainder of a line after its first comma, surrounding whitespace
\* removed
LineRest(line) == Strip(Split1(Strip(line), ",")[2])

\* the lines of the text that have a comma, the type token and a non-empty
\* trimmed remainder
LinesOfType(text, token) ==
    {line \in Range(Split(text, "\n")) :
        /\ Find(line, ",") # 0
        /\ LineToken(line) = token
        /\ LineRest(line) # <<>>}

\* C11: for every DOMAIN, DOMAIN-SUFFIX or DOMAIN-KEYWORD line of the source
\* with a non-empty remainder, each parser that has a partition for the type
\* holds there the whole remainder after the first comma, trimmed
C11_FirstCommaTrimmed ==
    /\ "opt_parse_list_file" \in called =>
          /\ \A l \in LinesOfType(content, T_DOMAIN) : LineRest(l) \in opt_parsed.domains
          /\ \A l \in LinesOfType(content, T_DOMAIN_SUFFIX) :
                LineRest(l) \in opt_parsed.domain_suffixes
    /\ "convert_list_to_json" \in called =>
          /\ \A l \in LinesOfType(content, T_DOMAIN) :
                LineRest(l) \in Range(PartitionVals(json_doc.rules, "domain"))
          /\ \A l \in LinesOfType(content, T_DOMAIN_SUFFIX) :
                LineRest(l) \in Range(PartitionVals(json_doc.rules, "domain_suffix"))
          /\ \A l \in LinesOfType(content, T_DOMAIN_KEYWORD) :
                LineRest(l) \in Range(PartitionVals(json_doc.rules, "domain_keyword"))
    /\ "yaml_parse_list_file" \in called =>
          \A t \in {T_DOMAIN, T_DOMAIN_SUFFIX, T_DOMAIN_KEYWORD} :
              \A l \in LinesOfType(content, t) :
                  (t \o <<",">> \o LineRest(l)) \in Range(yaml_data.rules)
    /\ "list_to_json" \in called =>
          /\ \A l \in LinesOfType(content, T_DOMAIN) :
                LineRest(l) \in Range(PartitionVals(l2j_doc.rules, "domain"))
          /\ \A l \in LinesOfType(content, T_DOMAIN_SUFFIX) :
                LineRest(l) \in Range(PartitionVals(l2j_doc.rules, "domain_suffix"))
          /\ \A l \in LinesOfType(content, T_DOMAIN_KEYWORD) :
                LineRest(l) \in Range(PartitionVals(l2j_doc.rules, "domain_keyword"))

(***************************************************************************)
(* C12: lines of an unsupported type are excluded and counted              *)
(***************************************************************************)
IsUnsupportedLine(line) ==
    /\ Find(line, ",") # 0
    /\ Strip(LineToken(line)) \in UNSUPPORTED_RULE_TYPES

\* the text without its lines of an unsupported type
WithoutUnsupported(text) ==
    LET IsKept(line) == ~IsUnsupportedLine(line)
    IN Join(SelectSeq(Split(text, "\n"), IsKept), <<"\n">>)

\* the number of lines of the text that have an unsupported type
UnsupportedCount(text) == Len(SelectSeq(Split(text, "\n"), IsUnsupportedLine))

\* C12: every parser returns the records it returns for the source without
\* its USER-AGENT, URL-REGEX and PROCESS-NAME lines, and the count a parser
\* reports for such lines (the skipped rules of the YAML parser, the ignored
\* count of list_to_json) is the number of such lines, lines of unknown type
\* not included
C12_UnsupportedCounted ==
    /\ "opt_parse_list_file" \in called =>
          opt_parsed = opt_parse_list_file(WithoutUnsupported(content))
    /\ "convert_list_to_json" \in called =>
          json_doc.rules = convert_list_to_json(WithoutUnsupported(content), version).rules
    /\ "yaml_parse_list_file" \in called =>
          /\ yaml_data.rules = yaml_parse_list_file(WithoutUnsupported(content)).rules
          /\ Len(yaml_data.skipped_rules) = UnsupportedCount(content)
    /\ "list_to_json" \in called =>
          /\ l2j_doc.rules = list_to_json(WithoutUnsupported(content), version).rules
          /\ l2j_doc.ignored = UnsupportedCount(content)

(***************************************************************************)
(* C13: no line makes parsing fail, every line is decided on its own       *)
(***************************************************************************)
\* a line that is blank, a comment, has no comma or has a type token that is
\* none of the known ones in any letter case
IsMalformedLine(line) ==
    \/ Strip(line) = <<>>
    \/ StartsWith(Strip(line), P_COMMENT)
    \/ Find(line, ",") = 0
    \/ Upper(Strip(LineToken(line))) \notin (SUPPORTED_RULE_TYPES \cup UNSUPPORTED_RULE_TYPES)

\* the text without its malformed lines
WellFormedOnly(text) ==
    LET IsKept(line) == ~IsMalformedLine(line)
    IN Join(SelectSeq(Split(text, "\n"), IsKept), <<"\n">>)

\* the lines of the text, each as a text of its own
SingleLines(text) == Split(text, "\n")

\* the sets of the merge optimizer's parser for each line parsed alone, united
RECURSIVE OptPerLine(_)
OptPerLine(lines) ==
    IF lines = <<>> THEN NoSets
    ELSE update_sets(opt_parse_list_file(Head(lines)), OptPerLine(Tail(lines)))

\* the rules of the YAML parser for each line parsed alone, concatenated
RECURSIVE YamlPerLine(_)
YamlPerLine(lines) ==
    IF lines = <<>> THEN <<>>
    ELSE yaml_parse_list_file(Head(lines)).rules \o YamlPerLine(Tail(lines))

\* the partition arrays of a JSON parser for each line parsed alone,
\* concatenated per partition
RECURSIVE JsonPerLine(_, _)
JsonPerLine(lines, key) ==
    IF lines = <<>> THEN <<>>
    ELSE PartitionVals(convert_list_to_json(Head(lines), 2).rules, key)
         \o JsonPerLine(Tail(lines), key)

RECURSIVE L2jPerLine(_, _)
L2jPerLine(lines, key) ==
    IF lines = <<>> THEN <<>>
    ELSE PartitionVals(list_to_json(Head(lines), 2).rules, key)
         \o L2jPerLine(Tail(lines), key)

\* C13: for any sequence of lines, with lines that have no comma, blank
\* lines, comment lines and lines of unknown type among them, each parser
\* returns a result (no error stops it), the records it returns are those it
\* returns for the source without these lines, and they are the records of
\* the lines parsed one by one, in line order
C13_NoLineFatal ==
    /\ "opt_parse_list_file" \in called =>
          /\ opt_parsed = opt_parse_list_file(WellFormedOnly(content))
          /\ opt_parsed = OptPerLine(SingleLines(content))
    /\ "yaml_parse_list_file" \in called =>
          /\ yaml_data.rules = yaml_parse_list_file(WellFormedOnly(content)).rules
          /\ yaml_data.rules = YamlPerLine(SingleLines(content))
    /\ "convert_list_to_json" \in called =>
          /\ json_doc.rules = convert_list_to_json(WellFormedOnly(content), version).rules
          /\ \A key \in {"domain", "domain_keyword", "domain_suffix", "ip_cidr"} :
                PartitionVals(json_doc.rules, key) = JsonPerLine(SingleLines(content), key)
    /\ "list_to_json" \in called =>
          /\ l2j_doc.rules = list_to_json(WellFormedOnly(content), version).rules
          /\ \A key \in {"domain", "domain_keyword", "domain_suffix"} :
                PartitionVals(l2j_doc.rules, key) = L2jPerLine(SingleLines(content), key)

\* the merge optimizer's parser and the YAML parser have both returned the
\* record of a DOMAIN line that follows a line `DOMAIN` without a comma
C13_Witness ==
    /\ {"opt_parse_list_file", "yaml_parse_list_file"} \subseteq called
    /\ content = Text(<<L_domain_nocomma, L_domain>>)
    /\ opt_parsed.domains = {D_bc}
    /\ yaml_data.rules = <<L_domain>>

(***************************************************************************)
(* C14: save_domains writes the set sorted by lowercased value             *)
(***************************************************************************)
\* the lines of a text without their terminating newline
LineValues(text) ==
    [i \in 1..Len(FileLines(text)) |->
        SubSeq(FileLines(text)[i], 1, Len(FileLines(text)[i]) - 1)]

\* C14: when save_domains has reported success, the file holds one
\* newline-terminated line per value of the given set and no other line,
\* every value exactly once, and for any two consecutive lines a, b the
\* lowercased b is not less than the lowercased a
C14_SaveSorted ==
    "saved" \in printed =>
        LET lines == FileLines(sample_file.text)
            values == LineValues(sample_file.text)
        IN /\ \A i \in 1..Len(lines) : lines[i][Len(lines[i])] = "\n"
           /\ Range(values) = optimized_domains
           /\ Len(values) = Cardinality(optimized_domains)
           /\ \A i \in 1..(Len(values) - 1) :
                 ~StrLess(Lower(values[i + 1]), Lower(values[i]))

\* a.b.c and B.d have been saved: a.b.c comes first although B precedes a
\* in code point order
C14_Witness ==
    /\ "saved" \in printed
    /\ LineValues(sample_file.text) = <<D_abc, D_Bd>>

(***************************************************************************)
(* C15: what the flat-text output of the merge run holds                   *)
(***************************************************************************)
\* the trimmed values of the lines of the given type in the given files
ValuesOfType(files, token) ==
    UNION {{LineRest(l) : l \in LinesOfType(files[i], token)} : i \in 1..Len(files)}

\* C15 as claimed: when the merge run has saved, no value that the sources
\* hold only as DOMAIN-SUFFIX (neither as DOMAIN nor in the prior file) is a
\* line of the written file
C15_FlatOutputDomainOnly ==
    "saved" \in printed =>
        \A v \in ValuesOfType(loaded_files, T_DOMAIN_SUFFIX) :
            v \notin (ValuesOfType(loaded_files, T_DOMAIN) \cup existing_domains)
                => v \notin Range(LineValues(sample_file.text))

\* C15 as amended: when the merge run has saved, every line of the written
\* file is the value of a DOMAIN line or of a DOMAIN-SUFFIX line of the
\* sources or a line of the prior file (values of other types never appear),
\* and every DOMAIN-SUFFIX value that is not a strict child of another
\* DOMAIN-SUFFIX value is a line of the file
C15_FlatOutputDomainsAndSuffixes ==
    "saved" \in printed =>
        LET written == Range(LineValues(sample_file.text))
            suffixes == ValuesOfType(loaded_files, T_DOMAIN_SUFFIX)
        IN /\ written \subseteq
                 (ValuesOfType(loaded_files, T_DOMAIN) \cup suffixes \cup existing_domains)
           /\ \A s \in suffixes :
                 (~ \E t \in suffixes : StrictChild(s, t)) => s \in written

\* the run has saved the file for a source with a DOMAIN-SUFFIX, a DOMAIN and
\* a DOMAIN-KEYWORD line and no prior file: the suffix value c is a line of
\* the file, the keyword value is not
C15_Witness ==
    /\ "saved" \in printed
    /\ loaded_files = <<F_2>>
    /\ existing_domains = {}
    /\ LineValues(sample_file.text) = <<D_bd, D_c>>

(***************************************************************************)
(* C16: every JSON document carries the version of the run                 *)
(***************************************************************************)
\* C16: the document convert_list_to_json writes for a source and the
\* document list_to_json writes carry the version the run was given, and so
\* does the merged document of merge_json_files
C16_VersionCarried ==
    /\ "convert_list_to_json" \in called => json_doc.version = version
    /\ "list_to_json" \in called => l2j_doc.version = version
    /\ "merge_json_files" \in called => merged_json.version = version

(***************************************************************************)
(* C17: the order of the YAML payloads                                     *)
(***************************************************************************)
\* the rules of the payload of a YAML text: the lines that follow its
\* "payload:" line, without the leading "  - "
PayloadRules(text) ==
    LET lines == Split(text, "\n")
        p == CHOOSE i \in 1..Len(lines) : lines[i] = Y_payload
    IN [i \in 1..(Len(lines) - p) |->
           SubSeq(lines[p + i], Len(Y_item) + 1, Len(lines[p + i]))]

\* the payload rules of the given YAML texts, one text after the other
RECURSIVE AllPayloadRules(_)
AllPayloadRules(texts) ==
    IF texts = <<>> THEN <<>>
    ELSE PayloadRules(Head(texts)) \o AllPayloadRules(Tail(texts))

\* C17: the YAML text of each source lists in its payload the rules of the
\* lines of the source in input line order; the merged payload holds every
\* distinct rule of the source payloads exactly once, in the order of first
\* occurrence when the sources are read in the order of the list
C17_YamlPayloadOrder ==
    /\ \A i \in 1..Len(yaml_contents) :
          PayloadRules(yaml_contents[i]) = YamlPerLine(SingleLines(loaded_files[i]))
    /\ "merge_yaml_files" \in called =>
          /\ merged_yaml.all_rules = Dedup(AllPayloadRules(yaml_contents))
          /\ merged_yaml.payload =
                 [i \in 1..Len(merged_yaml.all_rules) |-> Y_item \o merged_yaml.all_rules[i]]

\* the merge has run on two sources that share the rule IP-CIDR,1/8, the
\* first of which holds DOMAIN,b.c twice and before DOMAIN,ab.c: five rules
\* are left, DOMAIN,b.c first
C17_Witness ==
    /\ "merge_yaml_files" \in called
    /\ loaded_files = <<F_3, F_1>>
    /\ Len(merged_yaml.all_rules) = 5
    /\ merged_yaml.all_rules[1] = L_domain
    /\ merged_yaml.all_rules[2] = L_domain_ab_c

(***************************************************************************)
(* C18: the JSON document read back gives the parsed collection            *)
(***************************************************************************)
\* C18: when merge_json_files has run on the one document written for a
\* single source, the merged document holds, for each of domain,
\* domain_suffix and domain_keyword, exactly the set of values that
\* parse_list_file collected for that type from the source: none lost, none
\* added, none under another type
C18_JsonRoundTrip ==
    ("merge_json_files" \in called /\ Len(loaded_files) = 1) =>
        \A key \in {"domain", "domain_suffix", "domain_keyword"} :
            Range(PartitionVals(merged_json.rules, key))
                = Range(PartitionVals(json_parse_list_file(loaded_files[1]).rules, key))

\* the merge has read back the document of a source with an empty DOMAIN
\* value, an IP-CIDR line and a DOMAIN-KEYWORD value that holds a quote and
\* a backslash
C18_Witness ==
    /\ "merge_json_files" \in called
    /\ loaded_files = <<F_4>>
    /\ PartitionVals(merged_json.rules, "domain_keyword") = <<V_quote>>
    /\ PartitionVals(merged_json.rules, "domain") = <<<<>>>>

(***************************************************************************)
(* C19: failed sources are skipped, a run without any source fails         *)
(***************************************************************************)
\* the texts of the sources whose download or load succeeds, in order
SucceededTexts ==
    LET IsOk(src) == src.ok
        succeeded == SelectSeq(sources, IsOk)
    IN [i \in 1..Len(succeeded) |-> succeeded[i].text]

\* C19: in each of the three scripts, once the sources have been gone
\* through, the files the run goes on to process are those of all the
\* sources that succeeded, in order (a failed source is skipped, the ones
\* behind it are not); and a run in which no source succeeded ends with a
\* non-zero exit status and without the closing summary
C19_FailedSourcesSkipped ==
    /\ pc # "load" => loaded_files = SucceededTexts
    /\ (exit_status # "running" /\ SucceededTexts = <<>>) =>
          /\ exit_status = "exit 1"
          /\ "summary" \notin printed

(***************************************************************************)
(* C20: a failed write of the final output ends the run with a failure     *)
(***************************************************************************)
\* the final write of the run has failed: save_domains, merge_json_files
\* or the YAML script has reported it
FinalWriteFailed ==
    printed \cap {"save failed", "merge write failed", "program error"} # {}

\* C20: in each of the three scripts, once the write of the final output
\* has failed, the run does not print its closing summary, it does not end
\* with exit status 0, and the output path does not hold a partially
\* written file
C20_WriteFailureTerminal ==
    FinalWriteFailed =>
        /\ "summary" \notin printed
        /\ exit_status # "exit 0"
        /\ artifact # "partial"

(***************************************************************************)
(* C21: batch_process cleans its temporary files up on every return        *)
(***************************************************************************)
\* batch_process has returned
BatchReturned == script = "list_to_json_converter" /\ pc = "exit"

\* C21: whenever batch_process has returned from a run in which at least
\* one .list file was downloaded, no downloaded .list file is left in the
\* temporary directory and the removal of that directory has been tried
C21_TempFilesCleaned ==
    (BatchReturned /\ list_files(sources) # {}) =>
        /\ temp_files = {}
        /\ temp_dir \in {"removed", "rmdir failed"}

(***************************************************************************)
(* C22: the output of the merge run is a fixed point of the run            *)
(***************************************************************************)
\* the set of values in the file the k-th run has written
WrittenValues(k) == Range(LineValues(outputs[k].file.text))

\* C22: when the merge run is run again with the same sources on the file
\* the previous run has saved, the set of values it saves is the set the
\* previous run saved, whatever the sources and the first prior file were
C22_RerunFixedPoint ==
    \A k \in 1..(Len(outputs) - 1) :
        (outputs[k].message = "saved" /\ outputs[k + 1].message = "saved") =>
            WrittenValues(k + 1) = WrittenValues(k)

\* a second run has saved, and its output holds a suffix of the sources and
\* a value that no source holds, which the first run took from the first
\* prior file
C22_Witness ==
    LET parsed == parse_all([domains |-> {}, domain_suffixes |-> {}], loaded_files)
    IN /\ Len(outputs) = 2
       /\ outputs[1].message = "saved" /\ outputs[2].message = "saved"
       /\ \E v \in WrittenValues(2) : v \notin parsed.domains \cup parsed.domain_suffixes
       /\ \E v \in WrittenValues(2) : v \in parsed.domain_suffixes

====
